---- MODULE Spec2Model ----
(***************************************************************************)
(* awebox/ocp/operation.py: operation-mode specific constraints.           *)
(*                                                                         *)
(* Every function of the file is an action: the call draws its arguments   *)
(* from bounded sets, and leaves them and its return value in the state.   *)
(* Names of states are Python strings that the code slices and searches,   *)
(* so a name is a sequence of one-character strings.                       *)
(***************************************************************************)
EXTENDS Integers, Sequences, FiniteSets, TLC

VARIABLES
    hash_seed,      \* the process' string-hash seed (fixes set iteration order)
    op,             \* the function called last
    calls,          \* how often it was called in a row with the same arguments
    options,        \* argument: the options dict
    model,          \* argument: model.variables_dict['x'], model.architecture
    flags,          \* get_operation_conditions: the list returned
    expr,           \* a builder's return value (list of scalar components)
    cstr_list,      \* an assembler's return value (OcpConstraintList)
    prev_cstr_list, \* the assembler's return value of the call before
    arg_eqs_dict,   \* make_entry_list: eqs_dict as the caller built it
    arg_ineqs_dict, \* make_entry_list: ineqs_dict as the caller built it
    eqs_dict,       \* the caller's eqs_dict object after the call
    ineqs_dict,     \* the caller's ineqs_dict object after the call
    entry_list,     \* make_entry_list: the list returned
    warnings,       \* names the logger warned about during the call
    integral,       \* generate_integral_constraints: what it returns
    point           \* the positions q of the nodes a terminal inequality is read at

vars == <<hash_seed, op, calls, options, model, flags, expr, cstr_list,
          prev_cstr_list, arg_eqs_dict, arg_ineqs_dict, eqs_dict, ineqs_dict,
          entry_list, warnings, integral, point>>

(***************************************************************************)
(* Bounds                                                                  *)
(***************************************************************************)
\* hash seeds 0..MaxHashSeed
MaxHashSeed == 2
\* an assembler is called at most MaxCalls times in a row on the same arguments
MaxCalls == 2
\* a caller's dict has at most MaxEntries entries
MaxEntries == 4
\* node positions have coordinates in 0..MaxCoord
MaxCoord == 2
\* radii are 1..MaxRadius
MaxRadius == 2

(***************************************************************************)
(* Strings                                                                 *)
(***************************************************************************)
Alphabet ==
    <<"_", "0", "1", "2", "3", "a", "c", "d", "e", "f", "g", "i", "l", "m",
      "o", "q", "r", "s", "t", "u", "w", "x", "y">>

Digits == {"0", "1", "2", "3", "4", "5", "6", "7", "8", "9"}

CharCode(c) == CHOOSE i \in 1..Len(Alphabet) : Alphabet[i] = c

\* str(n) of a node number
Str(n) == <<Alphabet[n + 2]>>

\* name[:n]
Prefix(name, n) == SubSeq(name, 1, IF n < Len(name) THEN n ELSE Len(name))

\* label in name
Contains(name, label) ==
    \E i \in 1..(Len(name) - Len(label) + 1) :
        SubSeq(name, i, i + Len(label) - 1) = label

RECURSIVE StripDigits(_)
StripDigits(name) ==
    IF name # <<>> /\ name[Len(name)] \in Digits
    THEN StripDigits(SubSeq(name, 1, Len(name) - 1))
    ELSE name

\* struct_op.split_name_and_node_identifier: the name without its trailing
\* node digits, and those digits
split_name_and_node_identifier(name) ==
    LET root == StripDigits(name)
    IN  <<root, SubSeq(name, Len(root) + 1, Len(name))>>

(***************************************************************************)
(* Arguments: the model schema, the architecture, the options              *)
(***************************************************************************)
N(chars, node, parent) == chars \o Str(node) \o Str(parent)

name_q == <<"q">>
name_dq == <<"d", "q">>
name_r == <<"r">>
name_omega == <<"o", "m", "e", "g", "a">>
name_delta == <<"d", "e", "l", "t", "a">>
name_coeff == <<"c", "o", "e", "f", "f">>
name_l_t == <<"l", "_", "t">>
name_dl_t == <<"d", "l", "_", "t">>
name_e == <<"e">>
name_wx == <<"w", "x", "_", "2", "_", "e", "x", "t", "_", "0">>
name_dwx == <<"d", "w", "x", "_", "2", "_", "e", "x", "t", "_", "0">>
name_a_qaxi == <<"a", "_", "q", "a", "x", "i", "1">>
name_a_uaxi == <<"a", "_", "u", "a", "x", "i", "1">>
label_qaxi == <<"q", "a", "x", "i">>
label_qasym == <<"q", "a", "s", "y", "m">>
label_uaxi == <<"u", "a", "x", "i">>
label_uasym == <<"u", "a", "s", "y", "m">>

Entry(name, dim) == [name |-> name, dim |-> dim]

\* model.architecture of a single kite {1:0} and of two kites {1:0, 2:1, 3:1}
Architectures ==
    { [kite_nodes |-> <<1>>, parent_map |-> (1 :> 0)],
      [kite_nodes |-> <<2, 3>>, parent_map |-> (1 :> 0 @@ 2 :> 1 @@ 3 :> 1)] }

RECURSIVE KiteStates(_, _, _)
KiteStates(arch, kite_dof, i) ==
    IF i > Len(arch.kite_nodes) THEN <<>>
    ELSE LET k == arch.kite_nodes[i]
             p == arch.parent_map[k]
             pos == IF k = 1 THEN <<>>
                    ELSE <<Entry(N(name_q, k, p), 3), Entry(N(name_dq, k, p), 3)>>
             att == IF kite_dof = 6
                    THEN <<Entry(N(name_omega, k, p), 3), Entry(N(name_r, k, p), 9),
                           Entry(N(name_delta, k, p), 3)>>
                    ELSE <<Entry(N(name_coeff, k, p), 2)>>
         IN  pos \o att \o KiteStates(arch, kite_dof, i + 1)

\* model.variables_dict['x']: the state keys, with their sizes, in the order
\* the model declares them
StateSchema(arch, kite_dof, energy, induction) ==
    <<Entry(N(name_q, 1, 0), 3), Entry(N(name_dq, 1, 0), 3)>>
    \o KiteStates(arch, kite_dof, 1)
    \o <<Entry(name_l_t, 1), Entry(name_dl_t, 1)>>
    \o (IF energy THEN <<Entry(name_e, 1)>> ELSE <<>>)
    \o (IF induction
        THEN <<Entry(name_wx, 3), Entry(name_dwx, 3), Entry(name_a_qaxi, 1),
               Entry(name_a_uaxi, 1)>>
        ELSE <<>>)

Models ==
    { [x |-> StateSchema(a, d, e, i), architecture |-> a] :
        a \in Architectures, d \in {3, 6}, e \in BOOLEAN, i \in BOOLEAN }

NoModel == [x |-> <<>>, architecture |-> [kite_nodes |-> <<>>, parent_map |-> <<>>]]

Types ==
    {"launch", "mpc", "transition", "nominal_landing", "compromised_landing",
     "power_cycle", "tracking"}

Scenarios == {"broken_battery", "structural_damages"}

Battery ==
    [voltage |-> 3, charge |-> 2, number_of_cells |-> 6,
     conversion_efficiency |-> 1, charge_fraction |-> 1]

Opt(type, scenario, kite, tpc, label, Rm, Rk) ==
    [trajectory |-> [type |-> type],
     compromised_landing |-> [emergency_scenario |-> <<scenario, kite>>,
                               battery |-> Battery],
     mpc |-> [terminal_point_constr |-> tpc],
     induction |-> [label |-> label],
     nominal_landing |-> [main_node_radius |-> Rm, kite_node_radius |-> Rk]]

\* the options the mode classifier reads, the others at a default
ModeOptions ==
    { Opt(t, s, 2, c, label_qaxi, 1, 1) : t \in Types, s \in Scenarios, c \in BOOLEAN }

NoOptions == Opt("none", "none", 0, FALSE, <<>>, 1, 1)

(***************************************************************************)
(* The mode classifier, lines 55-90                                        *)
(***************************************************************************)
\* perf_op.determine_if_periodic
determine_if_periodic(o) == o.trajectory.type = "power_cycle"

\* a variant that forgets the type: return terminal_point
determine_if_terminal_conditions_any_type(o) == o.mpc.terminal_point_constr

\* lines 68-72
determine_if_terminal_conditions(o) ==
    LET mpc == o.trajectory.type = "mpc"
        terminal_point == o.mpc.terminal_point_constr
    IN  mpc /\ terminal_point

\* lines 74-77
determine_if_integral_constraints(o) ==
    LET compromised_landing == o.trajectory.type = "compromised_landing"
        broken_battery ==
            compromised_landing
            \* emergency_scenario[0]: a Python index i is the tuple index i + 1
            /\ o.compromised_landing.emergency_scenario[1] = "broken_battery"
    IN  broken_battery

determine_if_terminal_inequalities(o) ==
    o.trajectory.type \in {"nominal_landing", "compromised_landing"}

determine_if_param_initial_conditions(o) ==
    o.trajectory.type \in {"transition", "nominal_landing", "compromised_landing"}

determine_if_initial_conditions(o) ==
    o.trajectory.type \in {"launch", "mpc"}

\* a variant without 'launch' in the list
determine_if_param_terminal_conditions_no_launch(o) ==
    o.trajectory.type \in {"transition"}

\* lines 89-90
determine_if_param_terminal_conditions(o) ==
    o.trajectory.type \in {"transition", "launch"}

\* [periodic, initial_conditions, param_initial_conditions,
\*  param_terminal_conditions, terminal_inequalities, integral_constraints,
\*  terminal_conditions]
get_operation_conditions(o) ==
    <<determine_if_periodic(o),
      determine_if_initial_conditions(o),
      determine_if_param_initial_conditions(o),
      determine_if_param_terminal_conditions(o),
      determine_if_terminal_inequalities(o),
      determine_if_integral_constraints(o),
      determine_if_terminal_conditions(o)>>


(***************************************************************************)
(* Python containers                                                       *)
(***************************************************************************)
RECURSIVE NameCode(_)
NameCode(name) ==
    IF name = <<>> THEN 0
    ELSE (NameCode(SubSeq(name, 1, Len(name) - 1)) * 31
          + CharCode(name[Len(name)])) % 1000003

\* hash(name) of a str, which the process' seed keys
Hash(name, seed) == ((NameCode(name) + 1) * (2 * seed + 3) + 7 * seed) % 61

\* the place of a name in the hash table of a set: by its hash, and by the
\* name among equal hashes
HashKey(name, seed) == Hash(name, seed) * 1000003 + NameCode(name)

\* for variable in <a set of str>: a set is iterated in the order of its hash
\* table, not in the order its elements were added; two sets built alike in
\* one process are iterated alike. (f @@ <<>> is f, as a table.)
SetIter(S, seed) ==
    LET key == [a \in S |-> HashKey(a, seed)] @@ <<>>
        rank == [a \in S |-> Cardinality({b \in S : key[b] < key[a]}) + 1] @@ <<>>
    IN  [i \in 1..Cardinality(S) |-> CHOOSE a \in S : rank[a] = i]

\* x_struct.keys(): the keys in the declared order
Keys(x) == [i \in 1..Len(x) |-> x[i].name]

Range(seq) == {seq[i] : i \in 1..Len(seq)}

RECURSIVE Flatten(_)
\* cas.vertcat(*list)
Flatten(blocks) ==
    IF blocks = <<>> THEN <<>> ELSE Head(blocks) \o Flatten(Tail(blocks))

(***************************************************************************)
(* The builders, lines 192-366                                             *)
(***************************************************************************)
\* one scalar row of a difference: variables['x', key, comp] minus the row
\* of `minus` at the same place
Row(key, comp, minus) == [key |-> key, comp |-> comp, minus |-> minus]

\* variables['x', key] - minus['x', key], the components comps of it
Difference(key, comps, minus) == [j \in 1..Len(comps) |-> Row(key, comps[j], minus)]

\* the components 0 .. n-1
Upto(n) == [j \in 1..n |-> j - 1]

Min(a, b) == IF a < b THEN a ELSE b

BlockSize(x, name) == x[CHOOSE i \in 1..Len(x) : x[i].name = name].dim

\* a variant that takes [:3] of an r state
make_terminal_point_constraint_r3(m) ==
    LET block(state) ==
            LET state_name == split_name_and_node_identifier(state)[1]
                dim == BlockSize(m.x, state)
            IN  IF state_name \in {name_q, name_dq}
                THEN Difference(state, Upto(Min(2, dim)), "ref")
                ELSE IF state_name = name_r
                THEN Difference(state, Upto(Min(3, dim)), "ref")
                ELSE Difference(state, Upto(dim), "ref")
    IN  Flatten([i \in 1..Len(m.x) |-> block(Keys(m.x)[i])])

\* lines 192-206
make_terminal_point_constraint(m) ==
    LET block(state) ==
            LET state_name == split_name_and_node_identifier(state)[1]
                dim == BlockSize(m.x, state)
            IN  IF state_name \in {name_q, name_dq}
                THEN Difference(state, Upto(Min(2, dim)), "ref")
                ELSE IF state_name = name_r
                THEN Difference(state, Upto(Min(2, dim)), "ref")
                     \o Difference(state, <<3>>, "ref")
                ELSE Difference(state, Upto(dim), "ref")
    IN  Flatten([i \in 1..Len(m.x) |-> block(Keys(m.x)[i])])

\* actuator_flow.get_label
get_label(o) == o.induction.label

\* lines 232-243
is_induction_variable_from_comparison_model(name, o) ==
    LET all_induction_labels == {label_qaxi, label_qasym, label_uaxi, label_uasym}
        is_induction_variable ==
            \E local_label \in all_induction_labels : Contains(name, local_label)
        induction_label == get_label(o)
        is_enforced_model_variable == Contains(name, induction_label)
    IN  is_induction_variable /\ ~is_enforced_model_variable

\* struct_op.subkeys(variables, 'x')
subkeys(x) == Keys(x)

\* a variant without the test of name[:2]
is_periodic_key_no_dw(name, o) ==
    /\ ~(Prefix(name, 1) = <<"e">>)
    /\ ~(Prefix(name, 1) = <<"w">>)
    /\ ~is_induction_variable_from_comparison_model(name, o)

\* line 254: the keys that take part in the periodicity
is_periodic_key(name, o) ==
    /\ ~(Prefix(name, 1) = <<"e">>)
    /\ ~(Prefix(name, 1) = <<"w">>)
    /\ ~(Prefix(name, 2) = <<"d", "w">>)
    /\ ~is_induction_variable_from_comparison_model(name, o)

\* lines 246-265
make_periodicity_equality(m, o) ==
    LET names == subkeys(m.x)
        block(name) ==
            IF is_periodic_key(name, o)
            THEN Difference(name, Upto(BlockSize(m.x, name)), "final")
            ELSE <<>>
    IN  Flatten([i \in 1..Len(names) |-> block(names[i])])

\* lines 285-292: the keys that are not constrained
param_initial_black_list(m, o) ==
    IF /\ o.trajectory.type = "compromised_landing"
       /\ o.compromised_landing.emergency_scenario[1] = "structural_damages"
    THEN LET broken_kite == o.compromised_landing.emergency_scenario[2]
             broken_parent == m.architecture.parent_map[broken_kite]
         IN  {N(name_coeff, broken_kite, broken_parent)}
    ELSE {}

\* lines 292, 310, 340: set(x_struct.keys()) - set(black_list), as the loop
\* after it walks it
variable_list(m, black_list, seed) == SetIter(Range(Keys(m.x)) \ black_list, seed)

\* lines 294-297, 312-315, 342-345
match_conditions(m, variables, minus) ==
    Flatten([i \in 1..Len(variables) |->
                Difference(variables[i], Upto(BlockSize(m.x, variables[i])), minus)])

\* lines 267-299
make_param_initial_conditions(m, o, seed) ==
    match_conditions(m, variable_list(m, param_initial_black_list(m, o), seed),
                     "spline(xi_0)/scaling")

\* lines 301-317
make_initial_conditions(m, o, seed) ==
    match_conditions(m, variable_list(m, {}, seed), "ref")

\* lines 319-347
make_param_terminal_conditions(m, o, seed) ==
    match_conditions(m, variable_list(m, {}, seed), "spline(xi_f)/scaling")

\* line 223-230
make_initial_energy_equality == Difference(name_e, <<0>>, "ref")

\* one row of the terminal inequality: (q'q - R**2) / Rmain**2
Term(q, R, Rmain) == [q |-> q, R |-> R, Rmain |-> Rmain]

\* q'q
SquaredNorm(q) == q[1] * q[1] + q[2] * q[2] + q[3] * q[3]

\* the value of a row where the states are pt, as <<numerator, denominator>>
EvalTerm(t, pt) == <<SquaredNorm(pt[t.q]) - t.R * t.R, t.Rmain * t.Rmain>>

\* a variant that uses main_node_radius for the kite nodes too
make_terminal_position_inequality_main_radius(m, o) ==
    LET main_node_radius == o.nominal_landing.main_node_radius
        kite_nodes == m.architecture.kite_nodes
        parent_map == m.architecture.parent_map
    IN  <<Term(N(name_q, 1, 0), main_node_radius, main_node_radius)>>
        \o [i \in 1..Len(kite_nodes) |->
              Term(N(name_q, kite_nodes[i], parent_map[kite_nodes[i]]),
                   main_node_radius, main_node_radius)]

\* lines 349-366
make_terminal_position_inequality(m, o) ==
    LET main_node_radius == o.nominal_landing.main_node_radius
        kite_radius == o.nominal_landing.kite_node_radius
        kite_nodes == m.architecture.kite_nodes
        parent_map == m.architecture.parent_map
    IN  <<Term(N(name_q, 1, 0), main_node_radius, main_node_radius)>>
        \o [i \in 1..Len(kite_nodes) |->
              Term(N(name_q, kite_nodes[i], parent_map[kite_nodes[i]]),
                   kite_radius, main_node_radius)]


(***************************************************************************)
(* The assemblers, lines 92-120, 163-190, 208-221                          *)
(***************************************************************************)
\* cstr_op.Constraint(expr=..., name=..., cstr_type=...)
Constraint(e, name, cstr_type) == [name |-> name, cstr_type |-> cstr_type, expr |-> e]

\* a variant that hands out the list of the call before
OcpConstraintListShared == cstr_list

\* ocp_constraint.OcpConstraintList(): a new, empty list (lines 94, 165, 209)
OcpConstraintList == <<>>

\* if cond: cstr_list.append(cstr)
AppendIf(cond, list, cstr) == IF cond THEN Append(list, cstr) ELSE list

\* a variant that appends initial_energy after the conditions
get_initial_constraints_energy_last(o, m, seed) ==
    LET conditions == get_operation_conditions(o)
        initial_conditions == conditions[2]
        param_initial_conditions == conditions[3]
        l1 == AppendIf(param_initial_conditions, OcpConstraintList,
                       Constraint(make_param_initial_conditions(m, o, seed),
                                  "param_initial_conditions", "eq"))
        l2 == AppendIf(initial_conditions, l1,
                       Constraint(make_initial_conditions(m, o, seed),
                                  "initial_conditions", "eq"))
    IN  AppendIf(name_e \in Range(Keys(m.x)), l2,
                 Constraint(make_initial_energy_equality, "initial_energy", "eq"))

\* lines 92-120
get_initial_constraints(o, m, seed) ==
    LET conditions == get_operation_conditions(o)
        initial_conditions == conditions[2]
        param_initial_conditions == conditions[3]
        l1 == AppendIf(name_e \in Range(Keys(m.x)), OcpConstraintList,
                       Constraint(make_initial_energy_equality, "initial_energy", "eq"))
        l2 == AppendIf(param_initial_conditions, l1,
                       Constraint(make_param_initial_conditions(m, o, seed),
                                  "param_initial_conditions", "eq"))
    IN  AppendIf(initial_conditions, l2,
                 Constraint(make_initial_conditions(m, o, seed),
                            "initial_conditions", "eq"))

\* a variant that tags every record 'eq'
get_terminal_constraints_all_eq(o, m, seed) ==
    LET conditions == get_operation_conditions(o)
        param_terminal_conditions == conditions[4]
        terminal_inequalities == conditions[5]
        terminal_conditions == conditions[7]
        l1 == AppendIf(param_terminal_conditions, OcpConstraintList,
                       Constraint(make_param_terminal_conditions(m, o, seed),
                                  "param_terminal_conditions", "eq"))
        l2 == AppendIf(terminal_inequalities, l1,
                       Constraint(make_terminal_position_inequality(m, o),
                                  "terminal_inequalities", "eq"))
    IN  AppendIf(terminal_conditions, l2,
                 Constraint(make_terminal_point_constraint(m),
                            "terminal_equalities", "eq"))

\* lines 163-190
get_terminal_constraints(o, m, seed) ==
    LET conditions == get_operation_conditions(o)
        param_terminal_conditions == conditions[4]
        terminal_inequalities == conditions[5]
        terminal_conditions == conditions[7]
        l1 == AppendIf(param_terminal_conditions, OcpConstraintList,
                       Constraint(make_param_terminal_conditions(m, o, seed),
                                  "param_terminal_conditions", "eq"))
        l2 == AppendIf(terminal_inequalities, l1,
                       Constraint(make_terminal_position_inequality(m, o),
                                  "terminal_inequalities", "ineq"))
    IN  AppendIf(terminal_conditions, l2,
                 Constraint(make_terminal_point_constraint(m),
                            "terminal_equalities", "eq"))

\* lines 208-221
get_periodic_constraints(o, m) ==
    LET periodic == get_operation_conditions(o)[1]
    IN  AppendIf(periodic, OcpConstraintList,
                 Constraint(make_periodicity_equality(m, o), "state_periodicity", "eq"))

(***************************************************************************)
(* The aggregator, lines 410-450                                           *)
(***************************************************************************)
\* a casadi expression of r rows and c columns; its size() is (r, c)
SX(r, c) == [type |-> "SX", shape |-> <<r, c>>]

\* the empty Python list [], what make_periodicity_equality returns when no
\* key takes part: a list has no size()
PyList == [type |-> "list", shape |-> <<0, 0>>]

\* a dict is the sequence of its items, in insertion order (as list(dict.keys())
\* gives them since Python 3.7)
Item(name, value) == [name |-> name, value |-> value]

\* line 421: dict[name].size() raises for what is no casadi object
size_raises(value) == value.type # "SX"

\* lines 417-425: the dict, which is the caller's object, without the popped items
clear_empty_keys(dict) == SelectSeq(dict, LAMBDA item : ~size_raises(item.value))

\* line 423: the names the logger warns about
clear_empty_keys_warnings(dict) ==
    LET popped == SelectSeq(dict, LAMBDA item : size_raises(item.value))
    IN  [i \in 1..Len(popped) |-> popped[i].name]

\* cas.struct_symSX([cas.entry(name, shape = dict[name].size()) for name in keys])
struct_of(dict) == [i \in 1..Len(dict) |-> [name |-> dict[i].name, shape |-> dict[i].value.shape]]

\* lines 427-450; the two dicts after the call, the entry list, the warnings
make_entry_list(eqs, ineqs) ==
    LET eqs_cleared == clear_empty_keys(eqs)
        ineqs_cleared == clear_empty_keys(ineqs)
        eq_entry == IF eqs_cleared # <<>>
                    THEN <<[name |-> "equality", struct |-> struct_of(eqs_cleared)]>>
                    ELSE <<>>
        ineq_entry == IF ineqs_cleared # <<>>
                      THEN <<[name |-> "inequality", struct |-> struct_of(ineqs_cleared)]>>
                      ELSE <<>>
    IN  [eqs_dict |-> eqs_cleared,
         ineqs_dict |-> ineqs_cleared,
         entry_list |-> eq_entry \o ineq_entry,
         warnings |-> clear_empty_keys_warnings(eqs) \o clear_empty_keys_warnings(ineqs)]

\* lines 410-415: cas.struct_symSX(entry_list)
make_constraint_struct(eqs, ineqs) == make_entry_list(eqs, ineqs).entry_list

\* the scalar rows of a struct, in its order: (branch, name, row)
RECURSIVE StructRows(_)
StructRows(struct) ==
    IF struct = <<>> THEN <<>>
    ELSE LET branch == Head(struct)
             rows(e) == [j \in 1..(e.shape[1] * e.shape[2]) |->
                            [branch |-> branch.name, name |-> e.name, row |-> j - 1]]
         IN  Flatten([i \in 1..Len(branch.struct) |-> rows(branch.struct[i])])
             \o StructRows(Tail(struct))

\* struct(*values): the values laid on the rows of the struct (zeros without values)
StructCall(struct, values) ==
    LET rows == StructRows(struct)
    IN  [j \in 1..Len(rows) |->
            [branch |-> rows[j].branch, name |-> rows[j].name, row |-> rows[j].row,
             value |-> IF values = <<>> THEN 0 ELSE values[j]]]

(***************************************************************************)
(* The integral constraints, lines 123-161 and 368-408                     *)
(***************************************************************************)
\* lines 368-397: a scalar expression
make_terminal_battery_integrand == SX(1, 1)

\* lines 399-408
make_terminal_battery_constant(o) ==
    LET b == o.compromised_landing.battery
    IN  b.charge_fraction * b.number_of_cells * b.voltage * b.charge
        * b.conversion_efficiency

\* a variant that attaches the constant whatever the struct holds
AlwaysAttach(struct) == TRUE

\* line 155: list(integral_constraints.keys())
has_keys(struct) == struct # <<>>

\* lines 123-161: the struct, the function's ineqs_dict and
\* ineqs_constants_dict, and the constants
generate_integral_constraints(o, m) ==
    LET integral_constraints == get_operation_conditions(o)[6]
        ineqs == IF integral_constraints
                 THEN <<Item("terminal_battery", make_terminal_battery_integrand)>>
                 ELSE <<>>
        integral_constraints_struct == make_constraint_struct(<<>>, ineqs)
        ineqs_constants_dict ==
            IF has_keys(integral_constraints_struct)
            THEN <<Item("terminal_battery", make_terminal_battery_constant(o))>>
            ELSE <<>>
        integral_constants_list ==
            [i \in 1..Len(ineqs_constants_dict) |-> ineqs_constants_dict[i].value]
    IN  [integral_constraints_struct |-> integral_constraints_struct,
         ineqs_dict |-> make_entry_list(<<>>, ineqs).ineqs_dict,
         ineqs_constants_dict |-> ineqs_constants_dict,
         integral_constants |->
             StructCall(integral_constraints_struct, integral_constants_list)]


(***************************************************************************)
(* The calls                                                               *)
(***************************************************************************)
Labels == {label_qaxi, label_uaxi}

Radii == 1..MaxRadius

KitesOf(m) == Range(m.architecture.kite_nodes)

\* the options of one problem build on model m
BuildOptions(m) ==
    { Opt(t, s, k, c, label_qaxi, 1, 1) :
        t \in Types, s \in Scenarios, k \in KitesOf(m), c \in BOOLEAN }

\* the models of point-mass kites with an energy state and no induction states
PointMassModels ==
    { [x |-> StateSchema(a, 3, TRUE, FALSE), architecture |-> a] : a \in Architectures }

Positions == { <<a, 0, c>> : a \in 0..1, c \in 0..MaxCoord }

\* the position states the terminal inequality reads
PositionKeys(m) ==
    {N(name_q, 1, 0)} \cup {N(name_q, k, m.architecture.parent_map[k]) : k \in KitesOf(m)}

NoPoint == <<>>

EqNames == <<"A", "B", "C", "D", "E", "F">>

IneqNames == <<"P", "Q">>

Values == {SX(0, 1), SX(3, 1), SX(2, 1), PyList}

\* the dicts of n items named by the first n of names
DictsOf(names, n) ==
    { [i \in 1..n |-> Item(names[i], v[i])] : v \in [1..n -> Values] }

NoStruct ==
    [integral_constraints_struct |-> <<>>, ineqs_dict |-> <<>>,
     ineqs_constants_dict |-> <<>>, integral_constants |-> <<>>]

\* what a call that is no aggregation leaves of the aggregator's variables
NoAggregation ==
    /\ arg_eqs_dict' = <<>>
    /\ arg_ineqs_dict' = <<>>
    /\ eqs_dict' = <<>>
    /\ ineqs_dict' = <<>>
    /\ entry_list' = <<>>
    /\ warnings' = <<>>

\* a call of function f on (o, m) that returns no constraint list; the caller
\* makes one call at a time, and drops what it got before the next (Done)
Called(f, o, m) ==
    /\ op' = f
    /\ options' = o
    /\ model' = m
    /\ calls' = 1
    /\ cstr_list' = <<>>
    /\ prev_cstr_list' = <<>>
    /\ UNCHANGED hash_seed

\* a call of assembler f on (o, m) that returns list, the n-th call in a row
\* on these arguments
Assembled(f, o, m, n, list) ==
    /\ op' = f
    /\ options' = o
    /\ model' = m
    /\ calls' = n
    /\ prev_cstr_list' = cstr_list
    /\ cstr_list' = list
    /\ flags' = <<>>
    /\ expr' = <<>>
    /\ integral' = NoStruct
    /\ point' = NoPoint
    /\ NoAggregation
    /\ UNCHANGED hash_seed

\* a call of builder f on (o, m) that returns the expression e
Built(f, o, m, e) ==
    /\ Called(f, o, m)
    /\ expr' = e
    /\ flags' = <<>>
    /\ integral' = NoStruct
    /\ NoAggregation

GetOperationConditions ==
    /\ op = "none"
    /\ \E o \in ModeOptions :
            /\ Called("get_operation_conditions", o, NoModel)
            /\ flags' = get_operation_conditions(o)
            /\ expr' = <<>>
            /\ integral' = NoStruct
            /\ point' = NoPoint
            /\ NoAggregation

GetInitialConstraints ==
    \/ /\ op = "none"
       /\ \E m \in Models : \E o \in BuildOptions(m) :
            Assembled("get_initial_constraints", o, m, 1,
                      get_initial_constraints(o, m, hash_seed))
    \* the caller calls again, on the same arguments
    \/ /\ op = "get_initial_constraints"
       /\ calls < MaxCalls
       /\ Assembled("get_initial_constraints", options, model, calls + 1,
                    get_initial_constraints(options, model, hash_seed))

GetTerminalConstraints ==
    \/ /\ op = "none"
       /\ \E m \in Models : \E o \in BuildOptions(m) :
            Assembled("get_terminal_constraints", o, m, 1,
                      get_terminal_constraints(o, m, hash_seed))
    \* the caller calls again, on the same arguments
    \/ /\ op = "get_terminal_constraints"
       /\ calls < MaxCalls
       /\ Assembled("get_terminal_constraints", options, model, calls + 1,
                    get_terminal_constraints(options, model, hash_seed))

GetPeriodicConstraints ==
    \/ /\ op = "none"
       /\ \E m \in Models : \E o \in BuildOptions(m) :
            Assembled("get_periodic_constraints", o, m, 1,
                      get_periodic_constraints(o, m))
    \* the caller calls again, on the same arguments
    \/ /\ op = "get_periodic_constraints"
       /\ calls < MaxCalls
       /\ Assembled("get_periodic_constraints", options, model, calls + 1,
                    get_periodic_constraints(options, model))

MakeTerminalPointConstraint ==
    /\ op = "none"
    /\ \E m \in Models :
            /\ Built("make_terminal_point_constraint", Opt("mpc", "broken_battery", 1,
                     TRUE, label_qaxi, 1, 1), m, make_terminal_point_constraint(m))
            /\ point' = NoPoint

MakePeriodicityEquality ==
    /\ op = "none"
    /\ \E m \in Models, label \in Labels :
            LET o == Opt("power_cycle", "broken_battery", 1, FALSE, label, 1, 1)
            IN  /\ Built("make_periodicity_equality", o, m, make_periodicity_equality(m, o))
                /\ point' = NoPoint

MakeParamInitialConditions ==
    /\ op = "none"
    /\ \E m \in Models, s \in Scenarios :
          \E t \in {"transition", "nominal_landing", "compromised_landing"}, k \in KitesOf(m) :
            LET o == Opt(t, s, k, FALSE, label_qaxi, 1, 1)
            IN  /\ Built("make_param_initial_conditions", o, m,
                         make_param_initial_conditions(m, o, hash_seed))
                /\ point' = NoPoint

MakeInitialConditions ==
    /\ op = "none"
    /\ \E m \in Models, t \in {"launch", "mpc"} :
            LET o == Opt(t, "broken_battery", 1, FALSE, label_qaxi, 1, 1)
            IN  /\ Built("make_initial_conditions", o, m,
                         make_initial_conditions(m, o, hash_seed))
                /\ point' = NoPoint

MakeParamTerminalConditions ==
    /\ op = "none"
    /\ \E m \in Models, t \in {"transition", "launch"} :
            LET o == Opt(t, "broken_battery", 1, FALSE, label_qaxi, 1, 1)
            IN  /\ Built("make_param_terminal_conditions", o, m,
                         make_param_terminal_conditions(m, o, hash_seed))
                /\ point' = NoPoint

MakeTerminalPositionInequality ==
    /\ op = "none"
    /\ \E m \in PointMassModels, Rm \in Radii, Rk \in Radii :
          \E q \in [PositionKeys(m) -> Positions] :
            LET o == Opt("nominal_landing", "broken_battery", 1, FALSE, label_qaxi, Rm, Rk)
            IN  /\ Built("make_terminal_position_inequality", o, m,
                         make_terminal_position_inequality(m, o))
                /\ point' = q

MakeConstraintStruct ==
    /\ op = "none"
    /\ \E n \in 0..MaxEntries, k \in 0..Len(IneqNames) :
          /\ n <= Len(EqNames)
          /\ n + k <= MaxEntries
          /\ \E eqs \in DictsOf(EqNames, n), ineqs \in DictsOf(IneqNames, k) :
               LET made == make_entry_list(eqs, ineqs)
               IN  /\ Called("make_constraint_struct", NoOptions, NoModel)
                   /\ arg_eqs_dict' = eqs
                   /\ arg_ineqs_dict' = ineqs
                   /\ eqs_dict' = made.eqs_dict
                   /\ ineqs_dict' = made.ineqs_dict
                   /\ entry_list' = made.entry_list
                   /\ warnings' = made.warnings
                   /\ flags' = <<>>
                   /\ expr' = <<>>
                   /\ integral' = NoStruct
                   /\ point' = NoPoint

GenerateIntegralConstraints ==
    /\ op = "none"
    /\ \E m \in Models : \E o \in BuildOptions(m) :
            /\ Called("generate_integral_constraints", o, m)
            /\ integral' = generate_integral_constraints(o, m)
            /\ flags' = <<>>
            /\ expr' = <<>>
            /\ point' = NoPoint
            /\ NoAggregation

\* the caller drops the arguments and the results of the call
Done ==
    /\ op # "none"
    /\ op' = "none"
    /\ calls' = 0
    /\ options' = NoOptions
    /\ model' = NoModel
    /\ flags' = <<>>
    /\ expr' = <<>>
    /\ cstr_list' = <<>>
    /\ prev_cstr_list' = <<>>
    /\ integral' = NoStruct
    /\ point' = NoPoint
    /\ NoAggregation
    /\ UNCHANGED hash_seed

Init ==
    /\ hash_seed \in 0..MaxHashSeed
    /\ op = "none"
    /\ calls = 0
    /\ options = NoOptions
    /\ model = NoModel
    /\ flags = <<>>
    /\ expr = <<>>
    /\ cstr_list = <<>>
    /\ prev_cstr_list = <<>>
    /\ arg_eqs_dict = <<>>
    /\ arg_ineqs_dict = <<>>
    /\ eqs_dict = <<>>
    /\ ineqs_dict = <<>>
    /\ entry_list = <<>>
    /\ warnings = <<>>
    /\ integral = NoStruct
    /\ point = NoPoint

Next ==
    \/ GetOperationConditions
    \/ GetInitialConstraints
    \/ GetTerminalConstraints
    \/ GetPeriodicConstraints
    \/ MakeTerminalPointConstraint
    \/ MakePeriodicityEquality
    \/ MakeParamInitialConditions
    \/ MakeInitialConditions
    \/ MakeParamTerminalConditions
    \/ MakeTerminalPositionInequality
    \/ MakeConstraintStruct
    \/ GenerateIntegralConstraints
    \/ Done

Spec == Init /\ [][Next]_vars


(***************************************************************************)
(* Properties                                                              *)
(***************************************************************************)
Type == options.trajectory.type

Scenario == options.compromised_landing.emergency_scenario

MatchedTypes ==
    {"launch", "mpc", "transition", "nominal_landing", "compromised_landing",
     "power_cycle"}

\* the keys of the blocks of an expression, in its order
KeysOf(e) ==
    LET first == SelectSeq(e, LAMBDA row : row.comp = 0)
    IN  [i \in 1..Len(first) |-> first[i].key]

\* the rows of the whole block of every key of names, in this order
WholeBlocks(names, minus) ==
    Flatten([i \in 1..Len(names) |->
                [j \in 1..BlockSize(model.x, names[i]) |-> Row(names[i], j - 1, minus)]])

RECURSIVE Sum(_)
Sum(ns) == IF ns = <<>> THEN 0 ELSE Head(ns) + Sum(Tail(ns))

\* C1: get_operation_conditions returns the six flags it computes itself as
\* the table of the mode classifier states them; for launch, initial_conditions
\* and param_terminal_conditions are true and the other four are false.
C1_FlagsAsTable ==
    op = "get_operation_conditions" =>
        /\ flags[2] = (Type \in {"launch", "mpc"})
        /\ flags[3] = (Type \in {"transition", "nominal_landing", "compromised_landing"})
        /\ flags[4] = (Type \in {"transition", "launch"})
        /\ flags[5] = (Type \in {"nominal_landing", "compromised_landing"})
        /\ flags[6] = (Type = "compromised_landing" /\ Scenario[1] = "broken_battery")
        /\ flags[7] = (Type = "mpc" /\ options.mpc.terminal_point_constr)
        /\ Type = "launch" =>
             /\ flags[2] /\ flags[4]
             /\ ~flags[3] /\ ~flags[5] /\ ~flags[6] /\ ~flags[7]

C1_Witness ==
    /\ op = "get_operation_conditions"
    /\ Type = "launch"
    /\ options.mpc.terminal_point_constr
    /\ flags[2] /\ flags[4] /\ ~flags[7]

\* C2: for a trajectory type that is none of the six the classifier knows,
\* get_operation_conditions returns seven flags, every one of them false.
C2_UnmatchedAllFalse ==
    (op = "get_operation_conditions" /\ Type \notin MatchedTypes) =>
        /\ Len(flags) = 7
        /\ \A i \in 1..7 : flags[i] = FALSE

C2_Witness ==
    /\ op = "get_operation_conditions"
    /\ Type = "tracking"
    /\ options.mpc.terminal_point_constr
    /\ Scenario[1] = "broken_battery"
    /\ flags = <<FALSE, FALSE, FALSE, FALSE, FALSE, FALSE, FALSE>>

\* the total size of the shape an item declares
TotalSize(item) == item.value.shape[1] * item.value.shape[2]

NonEmpty(dict) == SelectSeq(dict, LAMBDA item : TotalSize(item) # 0)

NamesOf(items) == [i \in 1..Len(items) |-> items[i].name]

BranchNames(name) ==
    LET b == SelectSeq(entry_list, LAMBDA e : e.name = name)
    IN  IF b = <<>> THEN <<>> ELSE NamesOf(b[1].struct)

\* C3: aggregation drops every entry whose shape has zero total size, with a
\* warning, and keeps exactly the other entries, in the order they were added.
C3_DropsZeroSize ==
    op = "make_constraint_struct" =>
        /\ BranchNames("equality") = NamesOf(NonEmpty(arg_eqs_dict))
        /\ BranchNames("inequality") = NamesOf(NonEmpty(arg_ineqs_dict))
        /\ Len(warnings) = Len(arg_eqs_dict) - Len(NonEmpty(arg_eqs_dict))
                           + Len(arg_ineqs_dict) - Len(NonEmpty(arg_ineqs_dict))

\* the keys a match builder must leave out
BlackListed ==
    IF /\ op = "make_param_initial_conditions"
       /\ Type = "compromised_landing"
       /\ Scenario[1] = "structural_damages"
    THEN {N(name_coeff, Scenario[2], model.architecture.parent_map[Scenario[2]])}
    ELSE {}

MatchBuilders ==
    {"make_initial_conditions", "make_param_initial_conditions",
     "make_param_terminal_conditions"}

\* C4: the keys whose differences a match builder concatenates are the keys of
\* the schema without the black-listed ones, each once, in the schema's order.
C4_SchemaOrder ==
    op \in MatchBuilders =>
        KeysOf(expr) = SelectSeq(Keys(model.x), LAMBDA k : k \notin BlackListed)

Root(name) == split_name_and_node_identifier(name)[1]

IsComparisonInduction(name) ==
    /\ \E l \in {label_qaxi, label_qasym, label_uaxi, label_uasym} : Contains(name, l)
    /\ ~Contains(name, options.induction.label)

\* the keys the periodicity leaves out, by the root of the key
ExcludedByRoot(name) ==
    \/ Root(name) \in {<<"e">>, <<"w">>}
    \/ Prefix(Root(name), 2) = <<"d", "w">>
    \/ IsComparisonInduction(name)

\* the keys the periodicity leaves out, by the first characters of the key
ExcludedByPrefix(name) ==
    \/ name[1] \in {"e", "w"}
    \/ (Len(name) >= 2 /\ name[1] = "d" /\ name[2] = "w")
    \/ IsComparisonInduction(name)

\* C5 as stated: make_periodicity_equality leaves out the keys whose root is e,
\* w or dw* and the induction variables of a comparison model, and no other
\* key; it returns the differences of the other keys in schema order.
C5_ExcludedByRoot ==
    op = "make_periodicity_equality" =>
        expr = WholeBlocks(SelectSeq(Keys(model.x), LAMBDA k : ~ExcludedByRoot(k)),
                           "final")

\* C5, amended: make_periodicity_equality leaves out the keys whose first
\* character is e or w or that start with dw, and the induction variables of a
\* comparison model, and no other key; it returns the differences of the other
\* keys in schema order, as many rows as their block sizes sum to.
C5_ExcludedByPrefix ==
    op = "make_periodicity_equality" =>
        LET kept == SelectSeq(Keys(model.x), LAMBDA k : ~ExcludedByPrefix(k))
        IN  /\ expr = WholeBlocks(kept, "final")
            /\ Len(expr) = Sum([i \in 1..Len(kept) |-> BlockSize(model.x, kept[i])])

C5_Witness ==
    /\ op = "make_periodicity_equality"
    /\ name_wx \in Range(Keys(model.x))
    /\ options.induction.label = label_uaxi
    /\ KeysOf(expr) # <<>>
    /\ \A k \in {name_e, name_wx, name_dwx, name_a_qaxi} : k \notin Range(KeysOf(expr))
    /\ name_a_uaxi \in Range(KeysOf(expr))

\* C6: make_terminal_position_inequality returns 1 + |kite_nodes| rows, the
\* row of q10 first and then the row of every kite node in their order; a row
\* is (q'q - R^2) / R_main^2, R the main-node radius for q10 and the kite-node
\* radius for a kite, and it is zero exactly where the norm of q is R.
C6_TerminalPositionRows ==
    op = "make_terminal_position_inequality" =>
        LET kites == model.architecture.kite_nodes
            Rm == options.nominal_landing.main_node_radius
            Rk == options.nominal_landing.kite_node_radius
            q(i) == IF i = 1 THEN N(name_q, 1, 0)
                    ELSE N(name_q, kites[i - 1], model.architecture.parent_map[kites[i - 1]])
            R(i) == IF i = 1 THEN Rm ELSE Rk
        IN  /\ Len(expr) = 1 + Len(kites)
            /\ \A i \in 1..Len(expr) :
                 /\ expr[i].q = q(i)
                 /\ EvalTerm(expr[i], point)
                      = <<SquaredNorm(point[q(i)]) - R(i) * R(i), Rm * Rm>>
                 /\ (EvalTerm(expr[i], point)[1] = 0)
                      <=> (SquaredNorm(point[q(i)]) = R(i) * R(i))

C6_Witness ==
    /\ op = "make_terminal_position_inequality"
    /\ model.architecture.kite_nodes = <<2, 3>>
    /\ options.nominal_landing.main_node_radius = 1
    /\ options.nominal_landing.kite_node_radius = 2
    /\ [i \in 1..Len(expr) |-> expr[i].q] = <<N(name_q, 1, 0), N(name_q, 2, 1), N(name_q, 3, 1)>>
    /\ EvalTerm(expr[2], point)[1] = 0
    /\ EvalTerm(expr[3], point)[1] # 0

\* the components make_terminal_point_constraint must constrain of a key
PointComponents(name) ==
    IF Root(name) \in {name_q, name_dq} THEN <<0, 1>>
    ELSE IF Root(name) = name_r THEN <<0, 1, 3>>
    ELSE Upto(BlockSize(model.x, name))

\* C7: make_terminal_point_constraint constrains, key by key in schema order,
\* the components 0 and 1 of a q or dq state, 0, 1 and 3 of an r state and
\* every component of any other state, and nothing else.
C7_TerminalPointComponents ==
    op = "make_terminal_point_constraint" =>
        LET names == Keys(model.x)
        IN  /\ expr = Flatten([i \in 1..Len(names) |->
                          [j \in 1..Len(PointComponents(names[i])) |->
                              Row(names[i], PointComponents(names[i])[j], "ref")]])
            /\ Len(expr) = Sum([i \in 1..Len(names) |->
                                  IF Root(names[i]) \in {name_q, name_dq} THEN 2
                                  ELSE IF Root(names[i]) = name_r THEN 3
                                  ELSE BlockSize(model.x, names[i])])

C7_Witness ==
    /\ op = "make_terminal_point_constraint"
    /\ \E i \in 1..Len(expr) : expr[i] = Row(N(name_r, 2, 1), 3, "ref")
    /\ \A i \in 1..Len(expr) : expr[i] # Row(N(name_r, 2, 1), 2, "ref")
    /\ \A i \in 1..Len(expr) : expr[i] # Row(N(name_q, 2, 1), 2, "ref")
    /\ \E i \in 1..Len(expr) : expr[i] = Row(name_e, 0, "ref")

Assemblers ==
    {"get_initial_constraints", "get_terminal_constraints", "get_periodic_constraints"}

C9_ConstantsAligned ==
    op = "generate_integral_constraints" =>
        LET struct == integral.integral_constraints_struct
            rows == StructRows(struct)
            constants == integral.integral_constants
            flag == Type = "compromised_landing" /\ Scenario[1] = "broken_battery"
            has_entry ==
                \E i \in 1..Len(rows) :
                    rows[i].branch = "inequality" /\ rows[i].name = "terminal_battery"
        IN  /\ has_entry <=> integral.ineqs_constants_dict # <<>>
            /\ has_entry <=> flag
            /\ NamesOf(integral.ineqs_constants_dict) = NamesOf(integral.ineqs_dict)
            /\ Len(constants) = Len(rows)
            /\ \A i \in 1..Len(rows) :
                 /\ constants[i].branch = rows[i].branch
                 /\ constants[i].name = rows[i].name
                 /\ constants[i].row = rows[i].row
                 /\ constants[i].value = integral.ineqs_constants_dict[i].value
            /\ ~flag => (struct = <<>> /\ constants = <<>>)

C9_Witness ==
    /\ op = "generate_integral_constraints"
    /\ Type = "compromised_landing"
    /\ Scenario[1] = "broken_battery"
    /\ Len(integral.integral_constants) = 1
    /\ integral.integral_constants[1].name = "terminal_battery"
    /\ integral.integral_constants[1].value = 36

\* C10: make_constraint_struct leaves the caller's two dicts as they were.
C10_DictsUnchanged ==
    op = "make_constraint_struct" =>
        /\ eqs_dict = arg_eqs_dict
        /\ ineqs_dict = arg_ineqs_dict

\* the names, and the tags, of the records of a constraint list, in its order
RecordNames(list) == [i \in 1..Len(list) |-> list[i].name]

RecordTags(list) == [i \in 1..Len(list) |-> list[i].cstr_type]

\* C11: get_initial_constraints returns initial_energy,
\* param_initial_conditions, initial_conditions, in this order, each tagged
\* eq and each present exactly when it is active: initial_energy when the
\* state schema has the key e (whatever the trajectory type), the other two
\* when their flag is true; the last two are never both present.
C11_InitialList ==
    op = "get_initial_constraints" =>
        LET conditions == get_operation_conditions(options)
            active ==
                [initial_energy |-> \E i \in 1..Len(model.x) : model.x[i].name = name_e,
                 param_initial_conditions |-> conditions[3],
                 initial_conditions |-> conditions[2]]
            names == RecordNames(cstr_list)
        IN  /\ names =
                 SelectSeq(<<"initial_energy", "param_initial_conditions",
                             "initial_conditions">>,
                           LAMBDA n : active[n])
            /\ \A i \in 1..Len(cstr_list) : cstr_list[i].cstr_type = "eq"
            /\ ~ (/\ \E i \in 1..Len(names) : names[i] = "param_initial_conditions"
                  /\ \E i \in 1..Len(names) : names[i] = "initial_conditions")

C11_Witness ==
    /\ op = "get_initial_constraints"
    /\ Type = "launch"
    /\ RecordNames(cstr_list) = <<"initial_energy", "initial_conditions">>

\* an unmatched trajectory type with an energy state: initial_energy alone
C11_WitnessUnmatched ==
    /\ op = "get_initial_constraints"
    /\ Type \notin MatchedTypes
    /\ RecordNames(cstr_list) = <<"initial_energy">>

\* C12: get_terminal_constraints returns param_terminal_conditions (eq),
\* terminal_inequalities (ineq), terminal_equalities (eq), in this order, each
\* present exactly when its flag is true; terminal_inequalities is the only
\* inequality record, and a trajectory type that matches no flag gets the
\* empty list.
C12_TerminalList ==
    op = "get_terminal_constraints" =>
        LET conditions == get_operation_conditions(options)
            active ==
                [param_terminal_conditions |-> conditions[4],
                 terminal_inequalities |-> conditions[5],
                 terminal_equalities |-> conditions[7]]
            tag ==
                [param_terminal_conditions |-> "eq",
                 terminal_inequalities |-> "ineq",
                 terminal_equalities |-> "eq"]
            names == RecordNames(cstr_list)
        IN  /\ names =
                 SelectSeq(<<"param_terminal_conditions", "terminal_inequalities",
                             "terminal_equalities">>,
                           LAMBDA n : active[n])
            /\ \A i \in 1..Len(cstr_list) : cstr_list[i].cstr_type = tag[names[i]]
            /\ \A i \in 1..Len(cstr_list) :
                 cstr_list[i].cstr_type = "ineq" <=> names[i] = "terminal_inequalities"
            /\ Type \notin MatchedTypes => cstr_list = <<>>

C12_Witness ==
    /\ op = "get_terminal_constraints"
    /\ Type = "nominal_landing"
    /\ RecordNames(cstr_list) = <<"terminal_inequalities">>
    /\ RecordTags(cstr_list) = <<"ineq">>
    /\ Len(cstr_list[1].expr) > 0

\* an unmatched trajectory type: the empty list
C12_WitnessUnmatched ==
    /\ op = "get_terminal_constraints"
    /\ Type \notin MatchedTypes
    /\ cstr_list = <<>>


====
